---------------------------- MODULE Spec2Model ----------------------------
(***************************************************************************)
(* A model of protractor.py: the three draggable Handles, the angle label  *)
(* and the clip mask of the Protractor overlay, with one action per mouse  *)
(* event handler, and the geometry helpers as operators.                   *)
(*                                                                         *)
(* Arithmetic conventions.                                                 *)
(*  - Widget positions are integer pixels (QPoint).                        *)
(*  - centerPoint() yields half pixels (31 / 2), so QPointF values are     *)
(*    kept as integers in units of half a pixel ("half units"); the points *)
(*    of pointsOnLine are kept as numerators over 2 * count.               *)
(*  - An angle is kept exactly, as the direction (s, c) of the vector      *)
(*    (det, dot) reduced by its gcd, plus a number k of whole turns:       *)
(*    the value is principal(s, c) + k turns, principal in (-180, 180]     *)
(*    degrees.  atan2 yields k = 0; 180 - a and a - 360 move k.  Floating  *)
(*    point rounding error is not modelled: the arithmetic is exact.       *)
(***************************************************************************)
EXTENDS Integers, Sequences, FiniteSets, TLC

VARIABLES handles, label, angleInvert, offset, mask, cursor,
          pressed, lastEvent, updates, history, geom

vars == <<handles, label, angleInvert, offset, mask, cursor,
          pressed, lastEvent, updates, history, geom>>

mainVars == <<handles, label, angleInvert, offset, mask, cursor,
              pressed, lastEvent, updates, history>>

---------------------------------------------------------------------------
(* Bounds of the model *)

\* handle x coordinates are kept within GridSteps steps of the lowest one
GridSteps == 2
\* coordinates of the points given to threePointAngle: -AngleRange..AngleRange
AngleRange == 2
\* half-unit coordinates of the points given to pointsOnLine
PointsRange == 4
\* largest maxDistance given to pointsOnLine
MaxDistance == 2

---------------------------------------------------------------------------
(* Program constants *)

HandleSize == 31
HandleCX == 50
HandleCY == 200
Handle1X == 200
Handle1Y == 200
Handle2X == 200
Handle2Y == 50
LabelDY == 30
MaskSpacing == 40
MaskOverlap == 5
\* a child QWidget's geometry before anything sets it (QLabel(self))
DefaultWidth == 100
DefaultHeight == 30
\* "font-size: 20px; padding: 2px" and the digit advance of that font
FontSize == 20
LabelPadding == 2
CharWidth == 11
\* tan(9.995 degrees) = TanNum / TanDen: where "%0.2f" gains a digit
TanNum == 176237
TanDen == 1000000

\* an attribute not set yet is the empty sequence, a set one <<value>>
Null == <<>>

---------------------------------------------------------------------------
(* Integers and points *)

Abs(n) == IF n < 0 THEN -n ELSE n

Max(a, b) == IF a >= b THEN a ELSE b

Min(a, b) == IF a <= b THEN a ELSE b

RECURSIVE GCD(_, _)
GCD(a, b) == IF b = 0 THEN a ELSE GCD(b, a % b)

\* math.ceil(a / b) for a >= 0, b > 0
Ceil(a, b) == (a + b - 1) \div b

Pt(x, y) == [x |-> x, y |-> y]

PtAdd(p, q) == Pt(p.x + q.x, p.y + q.y)

PtSub(p, q) == Pt(p.x - q.x, p.y - q.y)

\* qRound(n / den): floor(n / den + 0.5)
qRound(n, den) == (2 * n + den) \div (2 * den)

\* QPointF.toPoint() of a point given in half units
toPoint(ph) == Pt(qRound(ph.x, 2), qRound(ph.y, 2))

---------------------------------------------------------------------------
(* Angles *)

\* the angle whose sine and cosine have the signs and ratio of s and c,
\* plus k whole turns, in the given unit
Angle(s, c, k, unit) == [s |-> s, c |-> c, k |-> k, unit |-> unit]

\* math.atan2(y, x) on integers: atan2(0, 0) = 0
atan2(y, x) ==
    IF y = 0 /\ x = 0 THEN Angle(0, 1, 0, "rad")
    ELSE LET g == GCD(Abs(y), Abs(x))
         IN  Angle(y \div g, x \div g, 0, "rad")

\* mutant: the determinant with a plus sign
threePointAngle_plusDet(p1, center, p2) ==
    LET d1 == PtSub(p1, center)
        d2 == PtSub(p2, center)
        dot == d1.x * d2.x + d1.y * d2.y
        det == d1.x * d2.y + d1.y * d2.x
    IN  atan2(det, dot)

\* mutant: the points taken as the vectors, center not subtracted
threePointAngle_noCenter(p1, center, p2) ==
    LET dot == p1.x * p2.x + p1.y * p2.y
        det == p1.x * p2.y - p1.y * p2.x
    IN  atan2(det, dot)

threePointAngle(p1, center, p2) ==
    LET d1 == PtSub(p1, center)
        d2 == PtSub(p2, center)
        dot == d1.x * d2.x + d1.y * d2.y
        det == d1.x * d2.y - d1.y * d2.x
    IN  atan2(det, dot)

\* 180 * angle / math.pi
ToDegrees(a) == [a EXCEPT !.unit = "deg"]

\* -a: the principal value 180 (s = 0, c < 0) negates to -180 = 180 - 1 turn
Neg(a) ==
    IF a.s = 0 /\ a.c < 0 THEN [a EXCEPT !.k = -a.k - 1]
    ELSE [a EXCEPT !.s = -a.s, !.k = -a.k]

\* a + half a turn: a principal value above 0 passes 180 and gains a turn
AddHalfTurn(a) ==
    LET above == a.s > 0 \/ (a.s = 0 /\ a.c < 0)
    IN  [a EXCEPT !.s = -a.s, !.c = -a.c, !.k = IF above THEN a.k + 1 ELSE a.k]

\* 180 - a
Sub180(a) == AddHalfTurn(Neg(a))

\* a > 180 (degrees): the principal value is at most 180
Gt180(a) == a.k >= 1

\* a - 360
Sub360(a) == [a EXCEPT !.k = a.k - 1]

\* a < 0
IsNegative(a) == a.k < 0 \/ (a.k = 0 /\ a.s < 0)

\* the digits before the decimal point of "%0.2f" % a (degrees): 1 below
\* 9.995, 2 below 99.995, else 3
IntDigits(a) ==
    IF a.k # 0 THEN 3
    ELSE IF a.c > 0 /\ Abs(a.s) * TanDen < a.c * TanNum THEN 1
    ELSE IF a.c >= 0 \/ Abs(a.c) * TanDen < Abs(a.s) * TanNum THEN 2
    ELSE 3

\* "%0.2f °" % angleDeg: the value shown and the number of characters
Format(a) ==
    [val |-> a, chars |-> (IF IsNegative(a) THEN 1 ELSE 0) + IntDigits(a) + 5]

---------------------------------------------------------------------------
(* Segments and rectangles *)

\* a QPointF with the coordinates x / den, y / den
PtF(x, y, den) == [x |-> x, y |-> y, den |-> den]

\* mutant: the larger of the two counts
pointsOnLine_maxCount(p1, p2, maxDistance) ==
    LET diff == PtSub(p2, p1)
        countX == Ceil(Abs(p1.x - p2.x), 2 * maxDistance)
        countY == Ceil(Abs(p1.y - p2.y), 2 * maxDistance)
        count == Max(1, Max(countX, countY))
    IN  [i \in 1..count |->
            PtF(p1.x * count + diff.x * (i - 1),
                p1.y * count + diff.y * (i - 1), 2 * count)]
        \o <<PtF(p2.x * count, p2.y * count, 2 * count)>>

\* p1, p2 in half units, maxDistance in pixels; the points are numerators
\* over 2 * count
pointsOnLine(p1, p2, maxDistance) ==
    LET diff == PtSub(p2, p1)
        countX == Ceil(Abs(p1.x - p2.x), 2 * maxDistance)
        countY == Ceil(Abs(p1.y - p2.y), 2 * maxDistance)
        count == Max(1, Min(countX, countY))
    IN  [i \in 1..count |->
            PtF(p1.x * count + diff.x * (i - 1),
                p1.y * count + diff.y * (i - 1), 2 * count)]
        \o <<PtF(p2.x * count, p2.y * count, 2 * count)>>

\* QRectF(pA, pB).normalized().adjusted(-overlap/2, -overlap/2, overlap/2,
\* overlap/2): its edges, as numerators over pA.den
adjustedRect(pA, pB, overlap) ==
    LET half == overlap * (pA.den \div 2)
    IN  [left |-> Min(pA.x, pB.x) - half, top |-> Min(pA.y, pB.y) - half,
         right |-> Max(pA.x, pB.x) + half, bottom |-> Max(pA.y, pB.y) + half,
         den |-> pA.den]

rectsOnLine(p1, p2, maxDistance, overlap) ==
    LET points == pointsOnLine(p1, p2, maxDistance)
    IN  [i \in 1..(Len(points) - 1) |->
            adjustedRect(points[i + 1], points[i], overlap)]

\* QRectF.toRect(): the pixels left..right, top..bottom (inclusive)
toRect(r) ==
    [left |-> qRound(r.left, r.den), top |-> qRound(r.top, r.den),
     right |-> qRound(r.right, r.den) - 1,
     bottom |-> qRound(r.bottom, r.den) - 1]

---------------------------------------------------------------------------
(* Widgets *)

HandleNames == {"handleC", "handle1", "handle2"}

\* Handle.__init__ and the move() of Protractor.__init__
Handle(x, y) ==
    [x |-> x, y |-> y, width |-> HandleSize, height |-> HandleSize,
     offset |-> Null]

pos(w) == Pt(w.x, w.y)

\* in half units
centerPoint(w) == Pt(2 * w.x + w.width, 2 * w.y + w.height)

\* QWidget.geometry() as the pixels it covers
geometry(w) ==
    [left |-> w.x, top |-> w.y,
     right |-> w.x + w.width - 1, bottom |-> w.y + w.height - 1]

\* QWidget.move(p)
move(w, p) == [w EXCEPT !.x = p.x, !.y = p.y]

\* mutant: updateDisplay connected twice
connections_twice(h) == 2

\* the handlers connected to each handle's moved signal
connections(h) == 1

---------------------------------------------------------------------------
(* Protractor.updateDisplay and what it calls *)

placeLabel(hs, lab) ==
    move(lab, PtAdd(toPoint(centerPoint(hs["handleC"])),
                    Pt((-lab.width) \div 2, LabelDY)))

invertAngle(invert, angleDeg) ==
    IF invert THEN Sub180(angleDeg) ELSE angleDeg

\* mutant: >= 180 in place of > 180
wrapAngle_atLeast(angleDeg) ==
    IF Gt180(angleDeg) \/ (angleDeg.k = 0 /\ angleDeg.s = 0 /\ angleDeg.c < 0)
    THEN Sub360(angleDeg) ELSE angleDeg

wrapAngle(angleDeg) ==
    IF Gt180(angleDeg) THEN Sub360(angleDeg) ELSE angleDeg

\* label.setText(text); label.adjustSize(): the size of the text in the
\* label's font plus its padding (the font's metrics are the toolkit's:
\* taken here as CharWidth per character)
setTextAdjustSize(lab, text) ==
    [lab EXCEPT !.text = text,
                !.width = text.chars * CharWidth + 2 * LabelPadding,
                !.height = FontSize + 2 * LabelPadding]

\* QWidget.childrenRegion(): the geometry of every child
childrenRegion(hs, lab) ==
    {geometry(hs[h]) : h \in HandleNames} \cup {geometry(lab)}

\* mutant: the second line left out
updateMask_oneLine(hs, lab) ==
    LET line1 == rectsOnLine(centerPoint(hs["handleC"]),
                             centerPoint(hs["handle1"]),
                             MaskSpacing, MaskOverlap)
    IN  childrenRegion(hs, lab) \cup {toRect(line1[i]) : i \in 1..Len(line1)}

updateMask(hs, lab) ==
    LET line1 == rectsOnLine(centerPoint(hs["handleC"]),
                             centerPoint(hs["handle1"]),
                             MaskSpacing, MaskOverlap)
        line2 == rectsOnLine(centerPoint(hs["handleC"]),
                             centerPoint(hs["handle2"]),
                             MaskSpacing, MaskOverlap)
        rects == line1 \o line2
    IN  childrenRegion(hs, lab) \cup {toRect(rects[i]) : i \in 1..Len(rects)}

\* the label and the mask after updateDisplay(); self.adjustSize() is
\* overridden to do nothing and self.update() only asks for a repaint
updateDisplay(hs, lab, invert) ==
    LET placed == placeLabel(hs, lab)
        angle == threePointAngle(pos(hs["handle1"]), pos(hs["handleC"]),
                                 pos(hs["handle2"]))
        angleDeg == wrapAngle(invertAngle(invert, ToDegrees(angle)))
        shown == setTextAdjustSize(placed, Format(angleDeg))
    IN  [label |-> shown, mask |-> updateMask(hs, shown)]

\* updateDisplay() run n times in a row
RECURSIVE runUpdates(_, _, _, _)
runUpdates(n, hs, lab, invert) ==
    IF n <= 1 THEN updateDisplay(hs, lab, invert)
    ELSE runUpdates(n - 1, hs, updateDisplay(hs, lab, invert).label, invert)

---------------------------------------------------------------------------
(* The inputs of the model: pointer positions, and the handle grid *)

GridStep == Handle1X - HandleCX

\* handle coordinates the model's moves stay within
GridX == {HandleCX + (i - 1) * GridStep : i \in 0..GridSteps}

GridY == {Handle2Y, HandleCY}

InGrid(p) == p.x \in GridX /\ p.y \in GridY

Deltas ==
    {Pt(GridStep, 0), Pt(-GridStep, 0), Pt(0, GridStep), Pt(0, -GridStep)}

\* where a handle is pressed (handle coordinates): its centre pixel
HandlePressPos == {Pt(HandleSize \div 2, HandleSize \div 2)}

\* where the pointer is dragged to (handle coordinates)
HandleMovePos == {PtAdd(o, d) : o \in HandlePressPos, d \in Deltas}

\* pointer positions on the overlay (overlay coordinates)
OverlayPos == {Pt(0, 0), Pt(GridStep, 0)}

\* what a double-click leaves to compare with: the flag, the text, the
\* handle positions
Snapshot ==
    [angleInvert |-> angleInvert, text |-> label.text,
     pos |-> [h \in HandleNames |-> pos(handles[h])]]

---------------------------------------------------------------------------
(* Construction *)

\* Protractor.__init__
InitHandles ==
    [h \in HandleNames |->
        CASE h = "handleC" -> Handle(HandleCX, HandleCY)
          [] h = "handle1" -> Handle(Handle1X, Handle1Y)
          [] h = "handle2" -> Handle(Handle2X, Handle2Y)]

\* QLabel(self): at the origin, the default size, the empty text
InitLabel ==
    [x |-> 0, y |-> 0, width |-> DefaultWidth, height |-> DefaultHeight,
     text |-> [val |-> Angle(0, 1, 0, "none"), chars |-> 0]]

Protractor_init ==
    LET shown == updateDisplay(InitHandles, InitLabel, FALSE)
    IN  /\ handles = InitHandles
        /\ angleInvert = FALSE
        /\ label = shown.label
        /\ mask = shown.mask
        /\ offset = Null
        /\ cursor = "OpenHandCursor"
        /\ pressed = "none"
        /\ lastEvent = "init"
        /\ updates = 1
        /\ history = <<>>

Init == Protractor_init /\ geom = [phase |-> "idle"]

---------------------------------------------------------------------------
(* Handle: the mouse handlers *)

Handle_mousePressEvent(h, p) ==
    /\ pressed = "none"
    /\ handles' = [handles EXCEPT ![h].offset = <<p>>]
    /\ pressed' = h
    /\ lastEvent' = "handlePress"
    /\ updates' = 0
    /\ UNCHANGED <<label, angleInvert, offset, mask, cursor, history, geom>>

\* mutant: the handle moves and moved is not emitted
Handle_mouseMoveEvent_noEmit(h, p) ==
    /\ pressed = h
    /\ LET target == PtSub(PtAdd(pos(handles[h]), p), handles[h].offset[1])
       IN  /\ InGrid(target)
           /\ handles' = [handles EXCEPT ![h] = move(handles[h], target)]
    /\ updates' = 0
    /\ lastEvent' = "handleMove"
    /\ history' = <<>>
    /\ UNCHANGED <<label, mask, angleInvert, offset, cursor, pressed, geom>>

\* self.move(self.mapToParent(event.pos()) - self.offset); self.moved.emit()
Handle_mouseMoveEvent(h, p) ==
    /\ pressed = h
    /\ LET target == PtSub(PtAdd(pos(handles[h]), p), handles[h].offset[1])
           moved == [handles EXCEPT ![h] = move(handles[h], target)]
           shown == runUpdates(connections(h), moved, label, angleInvert)
       IN  /\ InGrid(target)
           /\ handles' = moved
           /\ label' = shown.label
           /\ mask' = shown.mask
           /\ updates' = connections(h)
    /\ lastEvent' = "handleMove"
    /\ history' = <<>>
    /\ UNCHANGED <<angleInvert, offset, cursor, pressed, geom>>

---------------------------------------------------------------------------
(* Protractor: the mouse handlers *)

Protractor_mousePressEvent(p) ==
    /\ pressed = "none"
    /\ cursor' = "ClosedHandCursor"
    /\ offset' = <<p>>
    /\ pressed' = "protractor"
    /\ lastEvent' = "press"
    /\ updates' = 0
    /\ UNCHANGED <<handles, label, angleInvert, mask, history, geom>>

\* every child (the three handles and the label) moves by diff
Protractor_mouseMoveEvent(p) ==
    /\ pressed = "protractor"
    /\ LET diff == PtSub(p, offset[1])
           moved == [h \in HandleNames |->
                        move(handles[h], PtAdd(pos(handles[h]), diff))]
           movedLabel == move(label, PtAdd(pos(label), diff))
           shown == updateDisplay(moved, movedLabel, angleInvert)
       IN  /\ \A h \in HandleNames : InGrid(pos(moved[h]))
           /\ handles' = moved
           /\ label' = shown.label
           /\ mask' = shown.mask
    /\ offset' = <<p>>
    /\ updates' = 1
    /\ lastEvent' = "overlayMove"
    /\ history' = <<>>
    /\ UNCHANGED <<angleInvert, cursor, pressed, geom>>

\* a release reaches the overlay from a handle too: Handle leaves the event
\* to its parent
Protractor_mouseReleaseEvent ==
    /\ pressed # "none"
    /\ cursor' = "OpenHandCursor"
    /\ pressed' = "none"
    /\ lastEvent' = "release"
    /\ updates' = 0
    /\ UNCHANGED <<handles, label, angleInvert, offset, mask, history, geom>>

\* mutant: the flag set, not toggled
Protractor_mouseDoubleClickEvent_set ==
    /\ pressed = "none"
    /\ offset # Null
    /\ LET shown == updateDisplay(handles, label, TRUE)
       IN  /\ angleInvert' = TRUE
           /\ label' = shown.label
           /\ mask' = shown.mask
    /\ pressed' = "protractor"
    /\ lastEvent' = "doubleClick"
    /\ updates' = 1
    /\ history' = IF Len(history) < 2 THEN Append(history, Snapshot)
                  ELSE <<history[2], Snapshot>>
    /\ UNCHANGED <<handles, offset, cursor, geom>>

\* delivered in place of the second press of a double click, so after a
\* press on the overlay has set self.offset; the button is then down
Protractor_mouseDoubleClickEvent ==
    /\ pressed = "none"
    /\ offset # Null
    /\ LET shown == updateDisplay(handles, label, ~angleInvert)
       IN  /\ angleInvert' = ~angleInvert
           /\ label' = shown.label
           /\ mask' = shown.mask
    /\ pressed' = "protractor"
    /\ lastEvent' = "doubleClick"
    /\ updates' = 1
    /\ history' = IF Len(history) < 2 THEN Append(history, Snapshot)
                  ELSE <<history[2], Snapshot>>
    /\ UNCHANGED <<handles, offset, cursor, geom>>

Next ==
    \/ \E h \in HandleNames, p \in HandlePressPos : Handle_mousePressEvent(h, p)
    \/ \E h \in HandleNames, p \in HandleMovePos : Handle_mouseMoveEvent(h, p)
    \/ \E p \in OverlayPos : Protractor_mousePressEvent(p)
    \/ \E p \in OverlayPos : Protractor_mouseMoveEvent(p)
    \/ Protractor_mouseReleaseEvent
    \/ Protractor_mouseDoubleClickEvent

Spec == Init /\ [][Next]_vars

---------------------------------------------------------------------------
(* The geometry functions applied to arbitrary points *)

AnglePoints ==
    {Pt(x, y) : x \in -AngleRange..AngleRange, y \in -AngleRange..AngleRange}

LinePoints ==
    {Pt(x, y) : x \in -PointsRange..PointsRange, y \in -PointsRange..PointsRange}

GeomInputs ==
    [phase : {"angleIn"}, p1 : AnglePoints, center : AnglePoints,
     p2 : AnglePoints]
    \cup [phase : {"pointsIn"}, p1 : LinePoints, p2 : LinePoints,
          maxDistance : 1..MaxDistance]

GeomInit == Protractor_init /\ geom \in GeomInputs

ApplyThreePointAngle ==
    /\ geom.phase = "angleIn"
    /\ geom' = [phase |-> "angleOut", p1 |-> geom.p1, center |-> geom.center,
                p2 |-> geom.p2,
                a12 |-> threePointAngle(geom.p1, geom.center, geom.p2),
                a21 |-> threePointAngle(geom.p2, geom.center, geom.p1)]
    /\ UNCHANGED mainVars

ApplyPointsOnLine ==
    /\ geom.phase = "pointsIn"
    /\ geom' = [phase |-> "pointsOut", p1 |-> geom.p1, p2 |-> geom.p2,
                maxDistance |-> geom.maxDistance,
                points |-> pointsOnLine(geom.p1, geom.p2, geom.maxDistance)]
    /\ UNCHANGED mainVars

GeomNext == ApplyThreePointAngle \/ ApplyPointsOnLine

GeomSpec == GeomInit /\ [][GeomNext]_vars

---------------------------------------------------------------------------
(* Claims about the geometry functions, under GeomSpec *)

\* the rays center->p1 and center->p2 point in exactly opposite directions
OppositeRays(p1, center, p2) ==
    LET d1 == PtSub(p1, center)
        d2 == PtSub(p2, center)
    IN  /\ d1.x * d2.y = d1.y * d2.x
        /\ d1.x * d2.x + d1.y * d2.y < 0

AngleCase ==
    /\ geom.phase = "angleOut"
    /\ geom.p1 # geom.center
    /\ geom.p2 # geom.center

\* C3, as stated: for all integer points p1 # center, p2 # center,
\* threePointAngle(p1, center, p2) = -threePointAngle(p2, center, p1),
\* the collinear cases included.
C3_AntisymmetryEverywhere == AngleCase => geom.a12 = Neg(geom.a21)

\* C3, amended: threePointAngle(p1, center, p2) =
\* -threePointAngle(p2, center, p1) for all integer points p1 # center,
\* p2 # center whose rays are not exactly opposite; when they are exactly
\* opposite (det = 0, dot < 0) both orders give +pi.
C3_AntisymmetryButOpposite ==
    AngleCase =>
        IF OppositeRays(geom.p1, geom.center, geom.p2)
        THEN /\ geom.a12 = Angle(0, -1, 0, "rad")
             /\ geom.a21 = Angle(0, -1, 0, "rad")
        ELSE geom.a12 = Neg(geom.a21)

C3_Witness ==
    /\ AngleCase
    /\ geom.a12.s > 0
    /\ geom.a21.s < 0
    /\ geom.a12.c < 0

\* n = ceil(a / b), said without Ceil
IsCeil(n, a, b) == n * b >= a /\ (n - 1) * b < a

\* C9: pointsOnLine(p1, p2, maxDistance) returns
\* max(1, min(ceil(|dx|/maxDistance), ceil(|dy|/maxDistance))) + 1 points,
\* at least 2; the first is p1, the last is p2, the points are evenly
\* spaced, and consecutive points are at most maxDistance apart along the
\* axis whose count the min took.
C9_PointsOnLine ==
    geom.phase = "pointsOut" =>
        LET pts == geom.points
            n == Len(pts)
            dx == Abs(geom.p1.x - geom.p2.x)
            dy == Abs(geom.p1.y - geom.p2.y)
            m2 == 2 * geom.maxDistance
            most == 2 * PointsRange
            stepX == pts[2].x - pts[1].x
            stepY == pts[2].y - pts[1].y
        IN  /\ n >= 2
            /\ \E cx, cy \in 0..most :
                  /\ IsCeil(cx, dx, m2)
                  /\ IsCeil(cy, dy, m2)
                  /\ n = Max(1, Min(cx, cy)) + 1
                  \* half units over pts.den / 2 against pixels
                  /\ cx <= cy => Abs(stepX) <= geom.maxDistance * pts[1].den
                  /\ cy <= cx => Abs(stepY) <= geom.maxDistance * pts[1].den
            /\ \A i \in 1..n : pts[i].den = pts[1].den
            /\ 2 * pts[1].x = geom.p1.x * pts[1].den
            /\ 2 * pts[1].y = geom.p1.y * pts[1].den
            /\ 2 * pts[n].x = geom.p2.x * pts[n].den
            /\ 2 * pts[n].y = geom.p2.y * pts[n].den
            /\ \A i \in 1..(n - 1) :
                  /\ pts[i + 1].x - pts[i].x = stepX
                  /\ pts[i + 1].y - pts[i].y = stepY

C9_Witness ==
    /\ geom.phase = "pointsOut"
    /\ Len(geom.points) = 4
    /\ geom.p1.x # geom.p2.x
    /\ Abs(geom.p1.y - geom.p2.y) > Abs(geom.p1.x - geom.p2.x)

---------------------------------------------------------------------------
(* Claims about the overlay, under Spec *)

\* the angle of the current state as the spec words it: the signed angle of
\* (arm1 centre, centre centre, arm2 centre) in degrees, 180 - value when
\* inverted, less 360 when above 180
AngleOfCentres ==
    LET value == ToDegrees(threePointAngle(centerPoint(handles["handle1"]),
                                           centerPoint(handles["handleC"]),
                                           centerPoint(handles["handle2"])))
        inverted == IF angleInvert THEN Sub180(value) ELSE value
    IN  IF Gt180(inverted) THEN Sub360(inverted) ELSE inverted

\* C1: in every state the angle shown in the label is the angle of the
\* current handle centres (inverted and wrapped as the flag says): it is
\* never stale.
C1_AngleNeverStale == label.text.val = AngleOfCentres

C1_Witness ==
    /\ lastEvent = "handleMove"
    /\ angleInvert
    /\ pos(handles["handleC"]) # Pt(HandleCX, HandleCY)
    /\ label.text.val = Angle(1, 0, 0, "deg")

\* C2, as stated: a drag step of the centre handle alone leaves the
\* computed angle unchanged.
C2_CentreDragKeepsAngle ==
    [][(pressed = "handleC" /\ lastEvent' = "handleMove")
         => label'.text.val = label.text.val]_vars

\* C2, amended: a drag step that moves all three handles by the same
\* (dx, dy), the whole-overlay drag, leaves the computed angle unchanged;
\* dragging the centre handle alone changes it in general.
C2_OverlayDragKeepsAngle ==
    [][lastEvent' = "overlayMove" => label'.text.val = label.text.val]_vars

C2_Witness ==
    /\ lastEvent = "overlayMove"
    /\ handles["handleC"].x # HandleCX
    /\ label.text.val.s # 0
    /\ label.text.val.c # 0

\* C4: the value formatted into the label lies in (-180, 180] degrees, for
\* every handle position and both values of the flag.
C4_AngleInRange == label.text.val.unit = "deg" /\ label.text.val.k = 0

\* the inverted value was above 180 and has been wrapped
C4_Witness ==
    /\ angleInvert
    /\ lastEvent = "doubleClick"
    /\ IsNegative(label.text.val)
    /\ label.text.val.c < 0

\* the pointer's movement in an overlay move step
PointerDelta == PtSub(offset'[1], offset[1])

\* C5, as stated: in an overlay move step every child, the three handles
\* and the label, is displaced by the pointer's movement.
C5_OverlayDragMovesAllChildren ==
    [][lastEvent' = "overlayMove" =>
         /\ \A h \in HandleNames :
               PtSub(pos(handles'[h]), pos(handles[h])) = PointerDelta
         /\ PtSub(pos(label'), pos(label)) = PointerDelta]_vars

\* C6: a mouse-move event delivered to a handle or to the overlay runs
\* updateDisplay exactly once, after the positions have changed: the
\* display is that of the new positions.
C6_OneUpdatePerDragStep ==
    lastEvent \in {"handleMove", "overlayMove"} =>
        /\ updates = 1
        /\ label.text.val = AngleOfCentres

C6_Witness ==
    /\ lastEvent = "overlayMove"
    /\ updates = 1
    /\ handles["handleC"].x # HandleCX

\* pixel (x, y) lies in rectangle r
Covers(r, x, y) == r.left <= x /\ x <= r.right /\ r.top <= y /\ y <= r.bottom

HandleFootprints == {geometry(handles[h]) : h \in HandleNames}

\* the coverage rectangles of centre->arm from the current centres
LineRects(arm) ==
    LET rects == rectsOnLine(centerPoint(handles["handleC"]),
                             centerPoint(handles[arm]), MaskSpacing, MaskOverlap)
    IN  {toRect(rects[i]) : i \in 1..Len(rects)}

\* C7, as stated: the mask is the union of the three handle footprints and
\* the coverage rectangles of the two segments, and contains nothing else:
\* every corner pixel of the mask lies in one of them.
C7_MaskOnlyHandlesAndLines ==
    LET parts == HandleFootprints \cup LineRects("handle1") \cup LineRects("handle2")
    IN  /\ parts \subseteq mask
        /\ \A r \in mask :
              \A x \in {r.left, r.right}, y \in {r.top, r.bottom} :
                 \E q \in parts : Covers(q, x, y)

\* C7, amended: the mask is the union of the footprints of the three
\* handles, the rectangle of the angle label, and the coverage rectangles of
\* the two segments from the handles' current centres; it is never stale.
C7_MaskIsChildrenAndLines ==
    mask = HandleFootprints \cup {geometry(label)}
             \cup LineRects("handle1") \cup LineRects("handle2")

C7_Witness ==
    /\ lastEvent = "handleMove"
    /\ Cardinality(LineRects("handle1")) = 4
    /\ Cardinality(LineRects("handle2")) = 1
    /\ handles["handleC"].x < 0

\* C8: a double-click flips the flag and leaves every handle where it was;
\* after two double-clicks with no drag between them the flag and the
\* displayed angle are what they were before the first.
C8_DoubleClickTwiceRestores ==
    LET n == Len(history)
        here == [h \in HandleNames |-> pos(handles[h])]
    IN  /\ n >= 1 => /\ angleInvert = ~history[n].angleInvert
                     /\ here = history[n].pos
        /\ n = 2 => /\ angleInvert = history[1].angleInvert
                    /\ label.text = history[1].text
                    /\ here = history[1].pos

C8_Witness ==
    /\ Len(history) = 2
    /\ lastEvent = "doubleClick"
    /\ angleInvert
    /\ label.text.val = Angle(-1, -1, 0, "deg")

\* C10, as stated: after every updateDisplay the label is centred under the
\* centre handle with respect to its size as displayed, and 30 below the
\* handle's centre.
C10_LabelCentred ==
    LET c == toPoint(centerPoint(handles["handleC"]))
    IN  /\ label.x + label.width \div 2 = c.x
        /\ label.y = c.y + LabelDY

=============================================================================
